---- MODULE Spec2Model ----
(***************************************************************************)
(* Book catalog service of lecture_5/book_api (and its lecture_6 router):  *)
(* the books table, BookService.get / search / create / update / delete,   *)
(* and the query predicate built by BookService.build_search_query.        *)
(*                                                                         *)
(* Text is a sequence of one-character strings.  The table is the set of   *)
(* committed rows of the SQLite database named in db_config.py.            *)
(***************************************************************************)
EXTENDS Integers, Sequences, FiniteSets, TLC

VARIABLES
    books,   \* the committed rows of table "books"
    issued,  \* history: the ids create has handed out so far
    last,    \* the last completed request: its arguments and its response
    scan,    \* history of a caller paging through BookService.get
    req,     \* a validated search request waiting for BookService.search
    sess,    \* the AsyncSession of each concurrent update/delete request
    students,       \* lecture_3: the list of student records
    student_index,  \* lecture_3: the set of student names
    menu,           \* lecture_3: where the program stands (menu, grades loop, exit)
    found_student,  \* lecture_3: position in students of add_student_grade's student
    shown           \* lecture_3: the last operation, its input and what it printed

\* the variables of the book catalog
catalog == <<books, issued, last, scan, req, sess>>

\* the variables of the student grade analyzer
analyzer == <<students, student_index, menu, found_student, shown>>

vars == <<books, issued, last, scan, req, sess,
          students, student_index, menu, found_student, shown>>

----------------------------------------------------------------------------
(* Bounds *)

\* ids the table may hold (create is capped when the next id would exceed it)
MaxBooks == 2

\* largest page size a caller asks for
MaxLimit == 2

\* number of concurrent update/delete requests
MaxSessions == 2

----------------------------------------------------------------------------
(* Values *)

\* Optional[str] = None of SearchBookQuery.title / author: validation rejects
\* the empty string (min_length=1), so the empty text is free to stand for None
NoText == <<>>

\* year = None (a NULL year); a validated year is >= 1
NoYear == 0

\* cursor = None of PaginationQuery; supplied cursors are >= 0 here
NoCursor == -1

Ids == 1..MaxBooks

\* titles and authors that create/update payloads carry
Texts == { <<"A", "b">>, <<"c">> }

Years == { NoYear, 1 }

\* BookSchema: title, author (1..50 characters), optional year
BookSchema == [title : Texts, author : Texts, year : Years]

NoPayload == [title |-> NoText, author |-> NoText, year |-> NoYear]

\* class Book(Base): id, title, author, year
Book(id, payload) ==
    [id |-> id, title |-> payload.title, author |-> payload.author,
     year |-> payload.year]

IdsOf(table) == { r.id : r \in table }

Min(a, b) == IF a < b THEN a ELSE b

----------------------------------------------------------------------------
(* Text operations *)

\* ASCII case folding, as SQLite's LIKE compares letters
Fold(ch) ==
    CASE ch = "A" -> "a"
      [] ch = "C" -> "c"
      [] OTHER -> ch

\* SQLite LIKE without ASCII case folding (what case_sensitive_like would do)
RECURSIVE LikeCaseSensitive(_, _)
LikeCaseSensitive(pattern, text) ==
    IF pattern = <<>> THEN text = <<>>
    ELSE IF Head(pattern) = "%"
         THEN LikeCaseSensitive(Tail(pattern), text)
              \/ (text # <<>> /\ LikeCaseSensitive(pattern, Tail(text)))
         ELSE /\ text # <<>>
              /\ (Head(pattern) = "_" \/ Head(pattern) = Head(text))
              /\ LikeCaseSensitive(Tail(pattern), Tail(text))

\* column.like(pattern) evaluated on one column value by SQLite: "%" matches
\* any run of characters, "_" any one character, letters match up to ASCII case
RECURSIVE LikeFold(_, _)
LikeFold(pattern, text) ==
    IF pattern = <<>> THEN text = <<>>
    ELSE IF Head(pattern) = "%"
         THEN LikeFold(Tail(pattern), text)
              \/ (text # <<>> /\ LikeFold(pattern, Tail(text)))
         ELSE /\ text # <<>>
              /\ (Head(pattern) = "_" \/ Fold(Head(pattern)) = Fold(Head(text)))
              /\ LikeFold(Tail(pattern), Tail(text))

Like(pattern, text) == LikeFold(pattern, text)

\* f"{search_text}%": the leading wildcard lost, a prefix match
WrapPrefix(text) == text \o <<"%">>

\* f"%{search_text}%"
Wrap(text) == <<"%">> \o text \o <<"%">>

\* str.split(" "): cut at every single space, empty pieces are kept
RECURSIVE Split(_)
Split(text) ==
    IF \A i \in 1..Len(text) : text[i] # " "
    THEN << text >>
    ELSE LET i == CHOOSE j \in 1..Len(text) :
                     /\ text[j] = " "
                     /\ \A k \in 1..(j - 1) : text[k] # " "
         IN  << SubSeq(text, 1, i - 1) >> \o Split(SubSeq(text, i + 1, Len(text)))

\* str_strip_whitespace=True: leading and trailing spaces are removed
RECURSIVE Strip(_)
Strip(text) ==
    IF text = <<>> THEN text
    ELSE IF Head(text) = " " THEN Strip(Tail(text))
    ELSE IF text[Len(text)] = " " THEN Strip(SubSeq(text, 1, Len(text) - 1))
    ELSE text

----------------------------------------------------------------------------
(* Query Builder *)

\* for search_word in search_words_list: subquery |= column.like(f"%{search_word}%")
WordsMatch(search_text, value) ==
    LET words == Split(search_text)
    IN  \E i \in 1..Len(words) : Like(Wrap(words[i]), value)

\* BookService.build_search_query, evaluated on the column value of one row
build_search_query(search_text, value) ==
    Like(Wrap(search_text), value) \/ WordsMatch(search_text, value)

----------------------------------------------------------------------------
(* The store: table "books" in SQLite, reached through an AsyncSession *)

\* the rows of a table, by ascending id (ORDER BY books.id)
RECURSIVE OrderById(_)
OrderById(rows) ==
    IF rows = {} THEN <<>>
    ELSE LET first == CHOOSE r \in rows : \A q \in rows : r.id <= q.id
         IN  << first >> \o OrderById(rows \ {first})

\* every order in which a SELECT without ORDER BY may hand the rows back
RECURSIVE AnyOrder(_)
AnyOrder(rows) ==
    IF rows = {} THEN { <<>> }
    ELSE UNION { { << r >> \o rest : rest \in AnyOrder(rows \ {r}) } : r \in rows }

\* LIMIT n
Limit(rowSeq, n) == SubSeq(rowSeq, 1, Min(n, Len(rowSeq)))

\* `if pagination.cursor:` is false for None and for 0
CursorGiven(cursor) == cursor # NoCursor /\ cursor # 0

\* query.where(Book.id >= pagination.cursor): an off-by-one variant of AfterCursor
AfterCursorInclusive(row, cursor) == CursorGiven(cursor) => row.id >= cursor

\* if pagination.cursor: query = query.where(Book.id > pagination.cursor)
AfterCursor(row, cursor) == CursorGiven(cursor) => row.id > cursor

\* BookService.get: select(Book).order_by(Book.id).limit(limit) [.where(id > cursor)]
get(table, cursor, limit) ==
    Limit(OrderById({ r \in table : AfterCursor(r, cursor) }), limit)

\* the WHERE clauses of BookService.search with the title and author
\* predicates joined by OR instead of AND
MatchesEither(row, params) ==
    /\ \/ params.title # NoText /\ build_search_query(params.title, row.title)
       \/ params.author # NoText /\ build_search_query(params.author, row.author)
       \/ params.title = NoText /\ params.author = NoText
    /\ params.year # NoYear => row.year = params.year

\* the WHERE clauses BookService.search adds for the filters that are present;
\* a NULL year equals no year
Matches(row, params) ==
    /\ params.title # NoText => build_search_query(params.title, row.title)
    /\ params.author # NoText => build_search_query(params.author, row.author)
    /\ params.year # NoYear => row.year = params.year

\* BookService.search: select(Book) [.where(...)] .limit(limit) [.where(id > cursor)];
\* there is no order_by, so the store picks the order, and with it the rows
\* that LIMIT keeps.  The set of answers the query may get
search(table, params, cursor, limit) ==
    { Limit(rowSeq, limit) :
        rowSeq \in AnyOrder({ r \in table : Matches(r, params) /\ AfterCursor(r, cursor) }) }

\* session.get(Book, book_id): the row with that primary key, or none
SessionGet(table, book_id) == { r \in table : r.id = book_id }

\* an id taken from the number of rows instead of the largest id
NewIdByCount(table) == Cardinality(table) + 1

\* the id SQLite gives an inserted row whose INTEGER PRIMARY KEY is not supplied:
\* one more than the largest id in the table (1 when the table is empty)
NewId(table) ==
    IF table = {} THEN 1
    ELSE (CHOOSE i \in IdsOf(table) : \A j \in IdsOf(table) : j <= i) + 1

Columns == { "title", "author", "year" }

\* the unit of work's UPDATE, writing every column of the payload but author
WriteColumnsNoAuthor(row, payload, changed) ==
    [c \in DOMAIN row |-> IF c \in changed \ {"author"} THEN payload[c] ELSE row[c]]

\* UPDATE books SET <changed columns> WHERE id = ?, applied to the stored row
WriteColumns(row, payload, changed) ==
    [c \in DOMAIN row |-> IF c \in changed THEN payload[c] ELSE row[c]]

\* BookService.update after session.get found `book`: the three assignments,
\* session.commit() and session.refresh(book).  The session flushes an UPDATE
\* of the columns whose new value differs from the loaded one; an UPDATE that
\* matches no row raises StaleDataError, a refresh of a vanished row raises
\* InvalidRequestError
FlushUpdate(table, book, payload) ==
    LET changed == { c \in Columns : payload[c] # book[c] }
        target  == SessionGet(table, book.id)
    IN  IF target = {}
        THEN [table |-> table, rows |-> <<>>,
              outcome |-> IF changed = {} THEN "InvalidRequestError"
                          ELSE "StaleDataError"]
        ELSE LET old == CHOOSE r \in target : TRUE
                 new == WriteColumns(old, payload, changed)
             IN  [table |-> (table \ target) \cup {new}, rows |-> << new >>,
                  outcome |-> "ok"]

\* DELETE FROM books with its WHERE clause lost: every row goes
FlushDeleteNoWhere(table, book) ==
    [table |-> {}, rows |-> <<>>, outcome |-> "ok"]

\* BookService.delete after session.get found `book`: session.delete(book) and
\* session.commit().  A DELETE that matches no row only warns
FlushDelete(table, book) ==
    [table |-> table \ SessionGet(table, book.id), rows |-> <<>>, outcome |-> "ok"]

----------------------------------------------------------------------------
(* Requests and responses *)

NoScan == [active |-> FALSE, limit |-> 0, calls |-> 0, seen |-> <<>>]

NoReq == [title |-> NoText, author |-> NoText, year |-> NoYear,
          cursor |-> NoCursor, limit |-> 0]

Response(op, id, payload, cursor, limit, outcome, rows) ==
    [op |-> op, id |-> id, payload |-> payload, cursor |-> cursor,
     limit |-> limit, outcome |-> outcome, rows |-> rows]

NoResponse == Response("none", 0, NoPayload, NoCursor, 0, "ok", <<>>)

\* a request's session: where the handler stands (idle, loaded = after its
\* session.get, done), the row session.get returned (a set: empty for None),
\* its outcome, and seq, its place in the order in which requests finished
IdleSession == [pc |-> "idle", op |-> "none", id |-> 0, payload |-> NoPayload,
                book |-> {}, outcome |-> "none", seq |-> 0]

RowIds(rowSeq) == [i \in 1..Len(rowSeq) |-> rowSeq[i].id]

\* what one operation of lecture_3/main.py read and printed: the message, and
\* the name and the averages that the message carries
Shown(op, input, printed, name, averages) ==
    [op |-> op, input |-> input, printed |-> printed, name |-> name,
     averages |-> averages]

NoShown == Shown("none", <<>>, "", <<>>, <<>>)

\* found_student: dict | None = None
NoStudent == 0

\* lecture_3/main.py before its first menu input: no students, at the menu
InitAnalyzer ==
    /\ students = <<>>
    /\ student_index = {}
    /\ menu = "menu"
    /\ found_student = NoStudent
    /\ shown = NoShown

----------------------------------------------------------------------------
(* One request at a time: POST /books/, PUT and DELETE /books/{id}, GET /books/ *)

Init ==
    /\ books = {}
    /\ issued = {}
    /\ last = NoResponse
    /\ scan = NoScan
    /\ req = NoReq
    /\ sess = [s \in 1..MaxSessions |-> IdleSession]
    /\ InitAnalyzer

\* BookService.create
Create(payload) ==
    LET id == NewId(books)
        book == Book(id, payload)
    IN  /\ id <= MaxBooks
        /\ books' = books \cup {book}
        /\ issued' = issued \cup {id}
        /\ last' = Response("create", id, payload, NoCursor, 0, "ok", << book >>)
        /\ scan' = NoScan
        /\ UNCHANGED <<req, sess, analyzer>>

\* BookService.update
Update(book_id, payload) ==
    LET found == SessionGet(books, book_id)
    IN  /\ IF found = {}
           THEN /\ books' = books
                /\ last' = Response("update", book_id, payload, NoCursor, 0,
                                    "NotFound", <<>>)
           ELSE LET done == FlushUpdate(books, CHOOSE b \in found : TRUE, payload)
                IN  /\ books' = done.table
                    /\ last' = Response("update", book_id, payload, NoCursor, 0,
                                        done.outcome, done.rows)
        /\ scan' = NoScan
        /\ UNCHANGED <<issued, req, sess, analyzer>>

\* BookService.delete
Delete(book_id) ==
    LET found == SessionGet(books, book_id)
    IN  /\ IF found = {}
           THEN /\ books' = books
                /\ last' = Response("delete", book_id, NoPayload, NoCursor, 0,
                                    "NotFound", <<>>)
           ELSE LET done == FlushDelete(books, CHOOSE b \in found : TRUE)
                IN  /\ books' = done.table
                    /\ last' = Response("delete", book_id, NoPayload, NoCursor, 0,
                                        done.outcome, done.rows)
        /\ scan' = NoScan
        /\ UNCHANGED <<issued, req, sess, analyzer>>

\* GET /books/ without a cursor (or with cursor 0): the first page
ListFirst(cursor, limit) ==
    LET page == get(books, cursor, limit)
    IN  /\ last' = Response("get", 0, NoPayload, cursor, limit, "ok", page)
        /\ scan' = [active |-> TRUE, limit |-> limit, calls |-> 1,
                    seen |-> RowIds(page)]
        /\ UNCHANGED <<books, issued, req, sess, analyzer>>

\* GET /books/ with cursor = the id of the last row of the previous page
ListNext ==
    /\ scan.active
    /\ last.op = "get"
    /\ last.rows # <<>>
    /\ LET cursor == last.rows[Len(last.rows)].id
           page == get(books, cursor, scan.limit)
       IN  /\ last' = Response("get", 0, NoPayload, cursor, scan.limit, "ok", page)
           /\ scan' = [scan EXCEPT !.calls = @ + 1, !.seen = @ \o RowIds(page)]
    /\ UNCHANGED <<books, issued, req, sess, analyzer>>

Next ==
    \/ \E p \in BookSchema : Create(p)
    \/ \E i \in Ids, p \in BookSchema : Update(i, p)
    \/ \E i \in Ids : Delete(i)
    \/ \E c \in {NoCursor, 0}, k \in 1..MaxLimit : ListFirst(c, k)
    \/ ListNext

Spec == Init /\ [][Next]_vars

----------------------------------------------------------------------------
(* Claims on the one-request-at-a-time service *)

Ceil(n, k) == (n + k - 1) \div k

\* C2: paging through BookService.get, first with no cursor and then with the
\* cursor set to the last id returned, with no create/update/delete between
\* the calls, has returned after c calls exactly the first min(N, c*k) ids in
\* ascending order; so after ceil(N/k) calls (and not before) it has returned
\* every id exactly once
C2_PagingReconstructsStore ==
    scan.active =>
        LET all == RowIds(OrderById(books))
            N == Len(all)
            k == scan.limit
        IN  /\ scan.seen = SubSeq(all, 1, Min(N, scan.calls * k))
            /\ (scan.calls >= Ceil(N, k) => scan.seen = all)
            /\ (scan.calls < Ceil(N, k) => scan.seen # all)

C2_Witness ==
    /\ scan.active
    /\ Cardinality(books) = 2
    /\ scan.limit = 1
    /\ scan.calls = 2
    /\ scan.seen = <<1, 2>>

\* C4: update(id, newData) on an id that has a record answers ok and leaves
\* exactly one record under that id, with title, author and year of newData;
\* update on an id with no record answers NotFound and leaves the table as it was
C4_UpdateContract ==
    [][ last'.op = "update" =>
          IF SessionGet(books, last'.id) # {}
          THEN /\ last'.outcome = "ok"
               /\ SessionGet(books', last'.id) = { Book(last'.id, last'.payload) }
          ELSE /\ last'.outcome = "NotFound"
               /\ books' = books ]_vars

C4_Witness ==
    /\ last.op = "update"
    /\ last.outcome = "ok"
    /\ Book(last.id, last.payload) \in books
    /\ Cardinality(books) >= 2

\* C5: delete(id) on an id that has a record answers ok and removes that record
\* and no other, so a lookup of the id then finds nothing; delete on an id with
\* no record answers NotFound and removes nothing
C5_DeleteContract ==
    [][ last'.op = "delete" =>
          IF SessionGet(books, last'.id) # {}
          THEN /\ last'.outcome = "ok"
               /\ books' = books \ SessionGet(books, last'.id)
               /\ SessionGet(books', last'.id) = {}
          ELSE /\ last'.outcome = "NotFound"
               /\ books' = books ]_vars

C5_Witness ==
    /\ last.op = "delete"
    /\ last.outcome = "ok"
    /\ last.id \notin IdsOf(books)
    /\ books # {}

\* C6: an id that create has assigned is never assigned again by a later create
\* (also after its book was deleted), and update never changes which ids exist
C6_IdNeverReused ==
    [][ /\ (last'.op = "create" /\ books' # books) => last'.id \notin issued
        /\ (last'.op = "update") => IdsOf(books') = IdsOf(books) ]_vars

\* C12: create(bookData) answers with an id no record had before the call and
\* adds exactly one record: the one a lookup of that id then finds, with title,
\* author and year of bookData, which is also the record the call returns
C12_CreateContract ==
    [][ last'.op = "create" =>
          LET book == Book(last'.id, last'.payload)
          IN  /\ last'.outcome = "ok"
              /\ last'.id \notin IdsOf(books)
              /\ books' = books \cup { book }
              /\ Cardinality(books') = Cardinality(books) + 1
              /\ SessionGet(books', last'.id) = { book }
              /\ last'.rows = << book >> ]_vars

C12_Witness ==
    /\ last.op = "create"
    /\ last.id = 2
    /\ Cardinality(books) = 2
    /\ Book(last.id, last.payload) \in books
    /\ \E r \in books : r.id = 1 /\ r.title # last.payload.title

----------------------------------------------------------------------------
(* GET /books/search/ on a populated table *)

\* every table create, update and delete can leave behind
Stores ==
    UNION { { { Book(i, f[i]) : i \in D } : f \in [D -> BookSchema] } : D \in SUBSET Ids }

\* title query strings as they arrive, before validation
RawTitles ==
    { <<"a">>, <<"c">>, <<" ", "c", " ">>, <<" ">>, <<"b">>, <<"_">>,
      <<"a", " ", "b">>, <<"a", " ", " ", "b">> }

\* author query strings as they arrive, before validation
RawAuthors == { <<"a">>, <<" ", "c">> }

\* a query parameter is absent ({}) or supplied ({text})
Optional(S) == { {} } \cup { {x} : x \in S }

\* SearchBookQuery: str_strip_whitespace, then min_length=1; absent stays None
Stripped(raw) == IF raw = {} THEN NoText ELSE Strip(CHOOSE t \in raw : TRUE)

\* SearchRouteQueryParams: the request the router hands to BookService.search,
\* or NoReq when validation rejects it (a stripped value that is empty, or
\* check_search_parameter finding no filter at all)
Validate(rawTitle, rawAuthor, year, cursor, limit) ==
    IF \/ rawTitle # {} /\ Stripped(rawTitle) = <<>>
       \/ rawAuthor # {} /\ Stripped(rawAuthor) = <<>>
       \/ rawTitle = {} /\ rawAuthor = {} /\ year = NoYear
    THEN NoReq
    ELSE [title |-> Stripped(rawTitle), author |-> Stripped(rawAuthor),
          year |-> year, cursor |-> cursor, limit |-> limit]

ValidRequests ==
    { Validate(t, a, y, c, k) :
        t \in Optional(RawTitles), a \in Optional(RawAuthors), y \in Years,
        c \in {NoCursor} \cup (0..MaxBooks), k \in 1..MaxLimit } \ { NoReq }

InitSearch ==
    /\ books \in Stores
    /\ issued = IdsOf(books)
    /\ last = NoResponse
    /\ scan = NoScan
    /\ req \in ValidRequests
    /\ sess = [s \in 1..MaxSessions |-> IdleSession]
    /\ InitAnalyzer

\* router.search -> BookService.search, answering the waiting request
Search ==
    /\ req # NoReq
    /\ last.op = "none"
    /\ \E rows \in search(books, req, req.cursor, req.limit) :
          last' = Response("search", 0, NoPayload, req.cursor, req.limit, "ok", rows)
    /\ UNCHANGED <<books, issued, scan, req, sess, analyzer>>

NextSearch == Search

SpecSearch == InitSearch /\ [][NextSearch]_vars

----------------------------------------------------------------------------
(* Claims on search *)

Set(rowSeq) == { rowSeq[i] : i \in 1..Len(rowSeq) }

HasSpace(text) == \E i \in 1..Len(text) : text[i] = " "

HasWildcard(text) == \E i \in 1..Len(text) : text[i] \in {"%", "_"}

\* the rows a request may return at all: past the cursor, when one is given
PastCursor == { r \in books : req.cursor > 0 => r.id > req.cursor }

\* C1: the page search returns is the first `limit` rows, by ascending id,
\* among the rows that match the filters and have id > cursor
C1_SearchPageIsFirstKAscending ==
    last.op = "search" =>
        last.rows = Limit(OrderById({ r \in PastCursor : Matches(r, req) }), req.limit)

\* text contains part, letter for letter
ContainsExact(text, part) ==
    \E i \in 0..(Len(text) - Len(part)) :
        \A j \in 1..Len(part) : text[i + j] = part[j]

\* text contains part, ASCII letter case ignored
ContainsFold(text, part) ==
    \E i \in 0..(Len(text) - Len(part)) :
        \A j \in 1..Len(part) : Fold(text[i + j]) = Fold(part[j])

\* the value matches through one of the non-empty tokens of the search text
WordsMatchSkipEmpty(search_text, value) ==
    LET words == Split(search_text)
    IN  \E i \in 1..Len(words) : words[i] # <<>> /\ Like(Wrap(words[i]), value)

\* C3: for a title value with internal spaces, search({title: v}) returns (a
\* page of) the rows whose title matches v or a non-empty token of v, and no
\* row that matches only through an empty token
C3_EmptyTokenNeverMatches ==
    (/\ last.op = "search"
     /\ HasSpace(req.title)
     /\ req.author = NoText
     /\ req.year = NoYear) =>
        LET union == { r \in PastCursor :
                         \/ Like(Wrap(req.title), r.title)
                         \/ WordsMatchSkipEmpty(req.title, r.title) }
        IN  /\ Set(last.rows) \subseteq union
            /\ Len(last.rows) = Min(req.limit, Cardinality(union))

\* the field holds the value or one of its space-delimited tokens, same case
HoldsExact(field, value) ==
    \/ ContainsExact(field, value)
    \/ \E i \in 1..Len(Split(value)) : ContainsExact(field, Split(value)[i])

\* the field holds the value or one of its space-delimited tokens, case ignored
HoldsFold(field, value) ==
    \/ ContainsFold(field, value)
    \/ \E i \in 1..Len(Split(value)) : ContainsFold(field, Split(value)[i])

\* C9 as claimed: matching is case-sensitive; a returned row holds each given
\* search value (or a token of it) in the very same letter case
C9_MatchIsCaseSensitive ==
    (/\ last.op = "search"
     /\ ~HasWildcard(req.title)
     /\ ~HasWildcard(req.author)) =>
        \A r \in Set(last.rows) :
            /\ req.title # NoText => HoldsExact(r.title, req.title)
            /\ req.author # NoText => HoldsExact(r.author, req.author)

\* C9 as amended: matching ignores ASCII letter case; for search values free
\* of the wildcards % and _, search returns (a page of) exactly the rows whose
\* title / author hold the given value or one of its tokens, case ignored
C9_MatchIgnoresAsciiCase ==
    (/\ last.op = "search"
     /\ ~HasWildcard(req.title)
     /\ ~HasWildcard(req.author)) =>
        LET hits == { r \in PastCursor :
                        /\ req.title # NoText => HoldsFold(r.title, req.title)
                        /\ req.author # NoText => HoldsFold(r.author, req.author)
                        /\ req.year # NoYear => r.year = req.year }
        IN  /\ Set(last.rows) \subseteq hits
            /\ Len(last.rows) = Min(req.limit, Cardinality(hits))

C9_Witness ==
    /\ last.op = "search"
    /\ req.author = <<"a">>
    /\ req.title = NoText
    /\ \E r \in Set(last.rows) : r.author = <<"A", "b">>

\* the rows some answer to the request with only the title (only the author)
\* filter kept holds, under the same cursor and limit
TitleOnly == UNION { Set(rows) : rows \in search(books, [req EXCEPT !.author = NoText],
                                                 req.cursor, req.limit) }

AuthorOnly == UNION { Set(rows) : rows \in search(books, [req EXCEPT !.title = NoText],
                                                  req.cursor, req.limit) }

\* the page the single-field search returns when the store answers by ascending id
FirstPage(rows) == Set(Limit(OrderById(rows), req.limit))

\* C10 as claimed: with the same cursor and limit, search({title, author})
\* returns the intersection of the pages of search({title}) and search({author})
\* (taken where the store answers all three in ascending id order)
C10_PageIsIntersectionOfPages ==
    (/\ last.op = "search"
     /\ req.title # NoText
     /\ req.author # NoText
     /\ req.year = NoYear
     /\ last.rows = Limit(OrderById({ r \in PastCursor : Matches(r, req) }), req.limit)) =>
        Set(last.rows) = FirstPage(TitleOnly) \cap FirstPage(AuthorOnly)

\* C10 as amended: when the limit cuts neither single-field result short,
\* search({title, author}) returns the intersection of the two result sets
C10_IntersectionWhenNotCut ==
    (/\ last.op = "search"
     /\ req.title # NoText
     /\ req.author # NoText
     /\ req.year = NoYear
     /\ Cardinality(TitleOnly) <= req.limit
     /\ Cardinality(AuthorOnly) <= req.limit) =>
        Set(last.rows) = TitleOnly \cap AuthorOnly

C10_Witness ==
    /\ last.op = "search"
    /\ req.title # NoText
    /\ req.author # NoText
    /\ req.year = NoYear
    /\ Cardinality(TitleOnly) <= req.limit
    /\ Cardinality(AuthorOnly) <= req.limit
    /\ TitleOnly # AuthorOnly
    /\ TitleOnly # {}
    /\ AuthorOnly # {}
    /\ last.rows # <<>>

\* C11 as claimed: for a non-empty title value v without spaces, search({title: v})
\* returns (a page of) exactly the rows whose title contains v as a substring
C11_ExactlySubstringMatches ==
    (/\ last.op = "search"
     /\ req.title # NoText
     /\ ~HasSpace(req.title)
     /\ req.author = NoText
     /\ req.year = NoYear) =>
        LET hits == { r \in PastCursor : ContainsExact(r.title, req.title) }
        IN  /\ Set(last.rows) \subseteq hits
            /\ Len(last.rows) = Min(req.limit, Cardinality(hits))

\* C11 as amended: for a non-empty title value v without spaces and without the
\* wildcards % and _, search({title: v}) returns (a page of) exactly the rows
\* whose title contains v as a substring with ASCII letter case ignored
C11_SubstringIgnoringCase ==
    (/\ last.op = "search"
     /\ req.title # NoText
     /\ ~HasSpace(req.title)
     /\ ~HasWildcard(req.title)
     /\ req.author = NoText
     /\ req.year = NoYear) =>
        LET hits == { r \in PastCursor : ContainsFold(r.title, req.title) }
        IN  /\ Set(last.rows) \subseteq hits
            /\ Len(last.rows) = Min(req.limit, Cardinality(hits))

C11_Witness ==
    /\ last.op = "search"
    /\ req.title = <<"b">>
    /\ req.author = NoText
    /\ req.year = NoYear
    /\ \E r \in Set(last.rows) : r.title = <<"A", "b">>
    /\ \E r \in books : r.title = <<"c">>

----------------------------------------------------------------------------
(* Concurrent PUT and DELETE /books/{id}: each request has its own session   *)
(* and yields to the event loop at `await session.get` and `await            *)
(* session.commit`; the flush and COMMIT of one session are one step of the  *)
(* database                                                                  *)

Sessions == 1..MaxSessions

InitConc ==
    /\ books \in { T \in Stores : Cardinality(T) <= 1 }
    /\ issued = IdsOf(books)
    /\ last = NoResponse
    /\ scan = NoScan
    /\ req = NoReq
    /\ sess = [s \in Sessions |-> IdleSession]
    /\ InitAnalyzer

\* how many requests have finished so far
Finished == Cardinality({ s \in Sessions : sess[s].pc = "done" })

\* the session after `book = await session.get(Book, book_id)` and the
\* `if book is None: raise BookDoesNotExistException` that follows it
AfterGet(op, book_id, payload, found) ==
    IF found = {}
    THEN [pc |-> "done", op |-> op, id |-> book_id, payload |-> payload,
          book |-> {}, outcome |-> "NotFound", seq |-> Finished + 1]
    ELSE [pc |-> "loaded", op |-> op, id |-> book_id, payload |-> payload,
          book |-> found, outcome |-> "none", seq |-> 0]

\* BookService.update up to its session.get
ReadUpdate(s, book_id, payload) ==
    /\ sess[s].pc = "idle"
    /\ sess' = [sess EXCEPT ![s] =
                  AfterGet("update", book_id, payload, SessionGet(books, book_id))]
    /\ UNCHANGED <<books, issued, last, scan, req, analyzer>>

\* BookService.delete up to its session.get
ReadDelete(s, book_id) ==
    /\ sess[s].pc = "idle"
    /\ sess' = [sess EXCEPT ![s] =
                  AfterGet("delete", book_id, NoPayload, SessionGet(books, book_id))]
    /\ UNCHANGED <<books, issued, last, scan, req, analyzer>>

\* BookService.update from the three assignments to `return book`
CommitUpdate(s) ==
    /\ sess[s].pc = "loaded"
    /\ sess[s].op = "update"
    /\ LET done == FlushUpdate(books, CHOOSE b \in sess[s].book : TRUE, sess[s].payload)
       IN  /\ books' = done.table
           /\ sess' = [sess EXCEPT ![s].pc = "done", ![s].outcome = done.outcome,
                                   ![s].seq = Finished + 1]
    /\ UNCHANGED <<issued, last, scan, req, analyzer>>

\* BookService.delete from `await session.delete(book)` to its end
CommitDelete(s) ==
    /\ sess[s].pc = "loaded"
    /\ sess[s].op = "delete"
    /\ LET done == FlushDelete(books, CHOOSE b \in sess[s].book : TRUE)
       IN  /\ books' = done.table
           /\ sess' = [sess EXCEPT ![s].pc = "done", ![s].outcome = done.outcome,
                                   ![s].seq = Finished + 1]
    /\ UNCHANGED <<issued, last, scan, req, analyzer>>

NextConc ==
    \/ \E s \in Sessions, i \in Ids, p \in BookSchema : ReadUpdate(s, i, p)
    \/ \E s \in Sessions, i \in Ids : ReadDelete(s, i)
    \/ \E s \in Sessions : CommitUpdate(s)
    \/ \E s \in Sessions : CommitDelete(s)

SpecConc == InitConc /\ [][NextConc]_vars

----------------------------------------------------------------------------
(* Claims on concurrent requests *)

\* two finished requests on one id whose session.get returned the same stored
\* record (neither saw a write of the other), s finishing before t
Raced(s, t) ==
    /\ s # t
    /\ sess[s].pc = "done"
    /\ sess[t].pc = "done"
    /\ sess[s].id = sess[t].id
    /\ sess[s].book # {}
    /\ sess[t].book # {}
    /\ sess[s].book = sess[t].book
    /\ sess[s].seq < sess[t].seq

\* C7: when a delete races an update or another delete on the same existing
\* id, the request that commits second ends with NotFound (stated for the
\* races in which both read the record and the delete commits first)
C7_SecondCommitterGetsNotFound ==
    \A s, t \in Sessions :
        (Raced(s, t) /\ sess[s].op = "delete") => sess[t].outcome = "NotFound"

\* C8: when two updates race on the same existing id, the record stored once
\* both have committed carries title, author and year of the update that
\* committed last (checked while no later request has finished)
C8_LastCommittedUpdateWins ==
    \A s, t \in Sessions :
        (/\ Raced(s, t)
         /\ sess[s].op = "update"
         /\ sess[t].op = "update"
         /\ sess[t].seq = Finished) =>
            SessionGet(books, sess[t].id) = { Book(sess[t].id, sess[t].payload) }

----------------------------------------------------------------------------
(* lecture_3: the student grade analyzer, text of its inputs *)

\* the cased letters of the inputs
Letters == { "a", "A", "b", "B", "d", "D", "o", "n", "e", "x" }

\* str.upper on one character
Upper(ch) ==
    CASE ch = "a" -> "A"
      [] ch = "b" -> "B"
      [] ch = "d" -> "D"
      [] OTHER -> ch

\* str.lower on one character
Lower(ch) ==
    CASE ch = "A" -> "a"
      [] ch = "B" -> "b"
      [] ch = "D" -> "d"
      [] OTHER -> ch

\* str.title(): a letter is upper-cased when no letter precedes it, else lower-cased
StrTitle(text) ==
    [i \in 1..Len(text) |->
        IF i = 1 \/ text[i - 1] \notin Letters
        THEN Upper(text[i]) ELSE Lower(text[i])]

\* str.lower()
StrLower(text) == [i \in 1..Len(text) |-> Lower(text[i])]

\* str.strip(): leading and trailing whitespace removed
RECURSIVE StrStrip(_)
StrStrip(text) ==
    IF text = <<>> THEN text
    ELSE IF Head(text) = " " THEN StrStrip(Tail(text))
    ELSE IF text[Len(text)] = " " THEN StrStrip(SubSeq(text, 1, Len(text) - 1))
    ELSE text

\* name.replace(' ', '').isalpha(): at least one character, and only letters
IsAlphaName(name) ==
    LET glued == SelectSeq(name, LAMBDA ch : ch # " ")
    IN  /\ glued # <<>>
        /\ \A i \in 1..Len(glued) : glued[i] \in Letters

\* the character class [,;\s]
Delimiters == { ",", ";", " " }

\* re.split(r'[,;\s]+', text): cut at every run of delimiters; a run at either
\* end of the text leaves an empty piece there
RECURSIVE ReSplit(_)
ReSplit(text) ==
    IF \A i \in 1..Len(text) : text[i] \notin Delimiters
    THEN << text >>
    ELSE LET i == CHOOSE j \in 1..Len(text) :
                     /\ text[j] \in Delimiters
                     /\ \A k \in 1..(j - 1) : text[k] \notin Delimiters
             rest == SubSeq(text, i + 1, Len(text))
             skip == IF \A k \in 1..Len(rest) : rest[k] \in Delimiters
                     THEN Len(rest)
                     ELSE (CHOOSE j \in 1..Len(rest) :
                              /\ rest[j] \notin Delimiters
                              /\ \A k \in 1..(j - 1) : rest[k] \in Delimiters) - 1
         IN  << SubSeq(text, 1, i - 1) >>
             \o ReSplit(SubSeq(rest, skip + 1, Len(rest)))

Digits == { "0", "1", "7" }

DigitValue(ch) ==
    CASE ch = "0" -> 0
      [] ch = "1" -> 1
      [] ch = "7" -> 7

\* the value of a run of decimal digits
RECURSIVE Decimal(_)
Decimal(digits) ==
    IF digits = <<>> THEN 0
    ELSE 10 * Decimal(SubSeq(digits, 1, Len(digits) - 1))
         + DigitValue(digits[Len(digits)])

\* int(grade) raises no ValueError: an optional sign, then one or more digits
IsInt(token) ==
    LET digits == IF token # <<>> /\ Head(token) \in { "-", "+" }
                  THEN Tail(token) ELSE token
    IN  /\ digits # <<>>
        /\ \A i \in 1..Len(digits) : digits[i] \in Digits

\* int(grade)
ToInt(token) ==
    IF Head(token) = "-" THEN 0 - Decimal(Tail(token))
    ELSE IF Head(token) = "+" THEN Decimal(Tail(token))
    ELSE Decimal(token)

\* grades_input.index('done'): the position of the first 'done'
IndexOfDone(tokens) ==
    CHOOSE i \in 1..Len(tokens) :
        /\ tokens[i] = <<"d", "o", "n", "e">>
        /\ \A k \in 1..(i - 1) : tokens[k] # <<"d", "o", "n", "e">>

----------------------------------------------------------------------------
(* lecture_3: the student grade analyzer, its records and its menu *)

\* the longest list of grades one student is given
MaxGrades == 2

\* lines typed at 'Enter student name: '
RawNames ==
    { <<"a">>, <<" ", "A">>, <<"a", " ", "b">>, <<"a", "1">>, <<>> }

\* lines typed at "Enter a grade (or 'done' to finish): "
GradeLines ==
    { <<"7">>,
      <<"1", "0", "0", " ", "0">>,
      <<" ", "7", ";", "0", " ">>,
      <<"d", "o", "n", "e">>,
      <<"D", "o", "n", "e">>,
      <<"7", " ", "d", "o", "n", "e", " ", "1">>,
      <<"x", " ", "d", "o", "n", "e">>,
      <<"1", "0", "1", ",", "d", "o", "n", "e">>,
      <<",", "d", "o", "n", "e">>,
      <<"7", " ", "x">>,
      <<"7", " ", "-", "1">>,
      <<"7", ",">>,
      <<>> }

\* 'average': None
NoAverage == [sum |-> 0, len |-> 0]

RECURSIVE Sum(_)
Sum(grades) == IF grades = <<>> THEN 0 ELSE Head(grades) + Sum(Tail(grades))

\* sum(grades)/len(grades), kept as the exact quotient
Average(grades) == [sum |-> Sum(grades), len |-> Len(grades)]

\* a < b on two quotients
Less(a, b) == a.sum * b.len < b.sum * a.len

\* {'name': name, 'grades': [], 'average': None}
NewStudent(name) == [name |-> name, grades |-> <<>>, average |-> NoAverage]

\* add_student without its last statement: the index is left as it was
IndexAddSkipped(index, student) == index

\* student_index.add(new_student['name'])
IndexAdd(index, student) == index \cup { student.name }

\* input('Enter student name: ').title().strip()
NormalName(raw) == StrStrip(StrTitle(raw))

\* the linear search of add_student_grade: the first record with the name
FindStudent(list, name) ==
    IF \E i \in 1..Len(list) : list[i].name = name
    THEN CHOOSE i \in 1..Len(list) :
             /\ list[i].name = name
             /\ \A k \in 1..(i - 1) : list[k].name # name
    ELSE NoStudent

\* split(r'[,;\s]+', input(...).strip().lower())
Tokens(line) == ReSplit(StrLower(StrStrip(line)))

Done == <<"d", "o", "n", "e">>

\* grades_input.count('done')
DoneEntered(line) == \E i \in 1..Len(Tokens(line)) : Tokens(line)[i] = Done

\* grades_input after the trim at the first 'done'
GradesInput(line) ==
    IF DoneEntered(line)
    THEN SubSeq(Tokens(line), 1, IndexOfDone(Tokens(line)) - 1)
    ELSE Tokens(line)

\* the range check without its lower limit
OutOfRangeAbove(grade) == grade > 100

\* grade < 0 or grade > 100
OutOfRange(grade) == grade < 0 \/ grade > 100

\* the validation loop runs to its end without a break
AllValid(tokens) ==
    \A i \in 1..Len(tokens) : IsInt(tokens[i]) /\ ~OutOfRange(ToInt(tokens[i]))

\* what the validation loop prints at the token it breaks on
Complaint(tokens) ==
    LET i == CHOOSE j \in 1..Len(tokens) :
                 /\ ~(IsInt(tokens[j]) /\ ~OutOfRange(ToInt(tokens[j])))
                 /\ \A k \in 1..(j - 1) :
                        IsInt(tokens[k]) /\ ~OutOfRange(ToInt(tokens[k]))
    IN  IF IsInt(tokens[i]) THEN "Enter an integer number betweet 0 and 100"
        ELSE "Enter a valid integer number"

\* found_student['grades'].append(int(grade)) for every grade, then the average
WithGrades(student, tokens) ==
    LET grades == student.grades \o [i \in 1..Len(tokens) |-> ToInt(tokens[i])]
    IN  [student EXCEPT !.grades = grades, !.average = Average(grades)]

InitGrades ==
    /\ books = {}
    /\ issued = {}
    /\ last = NoResponse
    /\ scan = NoScan
    /\ req = NoReq
    /\ sess = [s \in 1..MaxSessions |-> IdleSession]
    /\ InitAnalyzer

\* menu item 1: add_student()
AddStudent(raw) ==
    LET name == NormalName(raw)
    IN  /\ menu = "menu"
        /\ IF ~IsAlphaName(name)
           THEN /\ shown' = Shown("add_student", raw,
                     "Name should be not empty and contain only alphabetic characters",
                     <<>>, <<>>)
                /\ UNCHANGED <<students, student_index>>
           ELSE IF name \in student_index
           THEN /\ shown' = Shown("add_student", raw,
                     "Student with this name already exists", <<>>, <<>>)
                /\ UNCHANGED <<students, student_index>>
           ELSE /\ students' = Append(students, NewStudent(name))
                /\ student_index' = IndexAdd(student_index, NewStudent(name))
                /\ shown' = Shown("add_student", raw, "", name, <<>>)
        /\ UNCHANGED <<menu, found_student, catalog>>

\* menu item 2: add_student_grade() up to the start of its input loop
AddStudentGrade(raw) ==
    LET student_name == NormalName(raw)
        found == FindStudent(students, student_name)
    IN  /\ menu = "menu"
        /\ IF found = NoStudent
           THEN /\ shown' = Shown("add_student_grade", raw,
                     "Student with this name does not exist", <<>>, <<>>)
                /\ UNCHANGED <<menu, found_student>>
           ELSE /\ menu' = "grades"
                /\ found_student' = found
                /\ shown' = Shown("add_student_grade", raw, "", student_name, <<>>)
        /\ UNCHANGED <<students, student_index, catalog>>

\* one pass of the input loop of add_student_grade (while True)
EnterGrades(line) ==
    LET done_entered == DoneEntered(line)
        grades_input == GradesInput(line)
    IN  /\ menu = "grades"
        /\ IF done_entered /\ grades_input = <<>>
           THEN \* break before the validation
                /\ menu' = "menu"
                /\ found_student' = NoStudent
                /\ shown' = Shown("grades", line, "", <<>>, <<>>)
                /\ UNCHANGED students
           ELSE IF ~AllValid(grades_input)
           THEN \* the validation loop breaks and its else block is skipped
                /\ shown' = Shown("grades", line, Complaint(grades_input), <<>>, <<>>)
                /\ UNCHANGED <<students, menu, found_student>>
           ELSE \* the else block of the validation loop
                /\ Len(students[found_student].grades) + Len(grades_input)
                       <= MaxGrades
                /\ students' = [students EXCEPT ![found_student] =
                                   WithGrades(@, grades_input)]
                /\ shown' = Shown("grades", line, "", <<>>,
                                  << students'[found_student].average >>)
                /\ IF done_entered
                   THEN menu' = "menu" /\ found_student' = NoStudent
                   ELSE UNCHANGED <<menu, found_student>>
        /\ UNCHANGED <<student_index, catalog>>

\* menu item 3: get_report()
GetReport ==
    LET average_list ==
            SelectSeq([i \in 1..Len(students) |->
                           IF students[i].grades = <<>> THEN NoAverage
                           ELSE Average(students[i].grades)],
                      LAMBDA a : a # NoAverage)
    IN  /\ menu = "menu"
        /\ shown' = Shown("get_report", <<>>,
                          IF average_list # <<>> THEN "--- Student Report ---"
                          ELSE IF students = <<>> THEN "There is no students"
                          ELSE "There is no grades",
                          <<>>, average_list)
        /\ UNCHANGED <<students, student_index, menu, found_student, catalog>>

\* menu item 4: get_top_performer()
GetTopPerformer ==
    LET graded_students == SelectSeq(students, LAMBDA st : st.average # NoAverage)
    IN  /\ menu = "menu"
        /\ IF graded_students = <<>>
           THEN shown' = Shown("get_top_performer", <<>>,
                    "There is no student with the highest average grade",
                    <<>>, <<>>)
           ELSE LET top == CHOOSE i \in 1..Len(graded_students) :
                        /\ \A k \in 1..Len(graded_students) :
                               ~Less(graded_students[i].average,
                                     graded_students[k].average)
                        /\ \A k \in 1..(i - 1) :
                               Less(graded_students[k].average,
                                    graded_students[i].average)
                    top_performer == graded_students[top]
                IN  shown' = Shown("get_top_performer", <<>>,
                        "The student with the highest average is",
                        top_performer.name, << top_performer.average >>)
        /\ UNCHANGED <<students, student_index, menu, found_student, catalog>>

\* menu item 5: the main loop breaks
Exit ==
    /\ menu = "menu"
    /\ menu' = "exit"
    /\ shown' = Shown("exit", <<>>, "Exiting program.", <<>>, <<>>)
    /\ UNCHANGED <<students, student_index, found_student, catalog>>

\* any other choice
InvalidChoice ==
    /\ menu = "menu"
    /\ shown' = Shown("invalid", <<>>,
                      "Invalid choice. Please enter a number between 1 and 5.",
                      <<>>, <<>>)
    /\ UNCHANGED <<students, student_index, menu, found_student, catalog>>

NextGrades ==
    \/ \E raw \in RawNames : AddStudent(raw)
    \/ \E raw \in RawNames : AddStudentGrade(raw)
    \/ \E line \in GradeLines : EnterGrades(line)
    \/ GetReport
    \/ GetTopPerformer
    \/ Exit
    \/ InvalidChoice

SpecGrades == InitGrades /\ [][NextGrades]_vars

----------------------------------------------------------------------------
(* Claims about the student grade analyzer *)

\* the integers of a list of tokens
Grades(tokens) == [i \in 1..Len(tokens) |-> ToInt(tokens[i])]

\* C13: every input line of add_student_grade that contains the token 'done'
\* ends the grade-entry loop once the line is processed, whatever tokens come
\* before 'done' (valid grades, invalid grades, or none), and no grade after
\* 'done' is added: the student's grades stay as they were or grow by exactly
\* the tokens before 'done'.
C13_DoneEndsTheLoop ==
    [][ (menu = "grades" /\ shown'.op = "grades" /\ DoneEntered(shown'.input)) =>
            /\ menu' = "menu"
            /\ LET f == found_student
               IN  \/ students'[f].grades = students[f].grades
                   \/ /\ AllValid(GradesInput(shown'.input))
                      /\ students'[f].grades =
                             students[f].grades \o Grades(GradesInput(shown'.input))
      ]_vars

\* the names of the records of a list of students
Names(list) == { list[i].name : i \in 1..Len(list) }

\* C14: after any sequence of menu operations student_index is exactly the
\* set of names of the records of students, no two records have the same
\* name, and so the index lookup of add_student and the linear search of
\* add_student_grade agree, for every name typed, on whether the student exists.
C14_IndexIsTheSetOfNames ==
    /\ student_index = Names(students)
    /\ \A i, k \in 1..Len(students) :
           students[i].name = students[k].name => i = k
    /\ \A raw \in RawNames :
           NormalName(raw) \in student_index
               <=> FindStudent(students, NormalName(raw)) # NoStudent

\* two students were added and a third add_student was refused as a duplicate
C14_Witness ==
    /\ Len(students) = 2
    /\ shown.op = "add_student"
    /\ shown.printed = "Student with this name already exists"
    /\ NormalName(shown.input) \in student_index
    /\ shown.input # NormalName(shown.input)

\* a token that is an integer in 0..100
IsGrade(token) == IsInt(token) /\ ToInt(token) \in 0..100

\* every stored grade is in 0..100, and 'average' is None exactly for the
\* students without grades
StoredGradesValid ==
    \A i \in 1..Len(students) :
        /\ \A k \in 1..Len(students[i].grades) : students[i].grades[k] \in 0..100
        /\ students[i].average = NoAverage <=> students[i].grades = <<>>

\* one line of the input loop is applied all-or-nothing
LineAllOrNothing ==
    (menu = "grades" /\ shown'.op = "grades") =>
        LET f == found_student
            tokens == GradesInput(shown'.input)
        IN  IF \E i \in 1..Len(tokens) : ~IsGrade(tokens[i])
            THEN students' = students
            ELSE /\ students'[f].grades = students[f].grades \o Grades(tokens)
                 /\ tokens # <<>> =>
                        students'[f].average = Average(students'[f].grades)
                 /\ \A i \in 1..Len(students) : i # f => students'[i] = students[i]
                 /\ Len(students') = Len(students)

\* C15: add_student_grade applies each input line all-or-nothing: when a token
\* of the line before 'done' is not an integer in 0..100, no grade of the line
\* is appended and grades and averages stay unchanged, otherwise every token
\* before 'done' is appended; so in every reachable state every stored grade is
\* in 0..100 and a student's average is None exactly when the student has no
\* grades.
C15_AllOrNothing == [] StoredGradesValid /\ [][LineAllOrNothing]_vars

\* a line with a valid grade followed by an invalid token was refused for a
\* student who keeps the one grade of an earlier line, while another student
\* has no grade and no average
C15_Witness ==
    /\ menu = "grades"
    /\ shown.op = "grades"
    /\ shown.input \in { <<"7", " ", "x">>, <<"7", " ", "-", "1">> }
    /\ shown.printed # ""
    /\ students[found_student].grades = << 7 >>
    /\ students[found_student].average = [sum |-> 7, len |-> 1]
    /\ \E i \in 1..Len(students) : students[i].average = NoAverage

====
